---- MODULE Spec2Model ----
(***************************************************************************)
(* Model of pandasai/__init__.py: the dataset lifecycle entry points       *)
(* create() and load().  Each call is executed by a caller that walks the  *)
(* statements of the function one step at a time; the file manager's       *)
(* storage and the DataFrame objects (with the schema object each one      *)
(* holds) are shared state.                                                *)
(*                                                                         *)
(* Strings that the code inspects character by character (paths, names)    *)
(* are sequences of one-character strings.  Optional values are records    *)
(* [some, v]: None is some = FALSE, and v then holds an empty value of the *)
(* same shape.                                                             *)
(***************************************************************************)
EXTENDS Integers, Sequences, FiniteSets, TLC

\* ------------------------------------------------------------------ bounds
\* number of create/load calls begun in one run
MaxCalls == 2

\* number of chat/follow_up calls made in one run
MaxChats == 3

\* ------------------------------------------------------- optional values
NoneStr == [some |-> FALSE, v |-> ""]
NoneList == [some |-> FALSE, v |-> <<>>]
NoneSrc == [some |-> FALSE, v |-> [type |-> "", table |-> ""]]
Some(x) == [some |-> TRUE, v |-> x]

\* Python truthiness of an optional list / string / dict argument
TruthyList(o) == o.some /\ o.v # <<>>
TruthyStr(o) == o.some /\ o.v # ""

\* ------------------------------------------------------------ characters
Lower == {"a", "b", "c", "o", "t"}
Digit == {"0", "1"}
Upper == {"A", "B"}

ToLowerChar(ch) ==
    CASE ch = "A" -> "a"
      [] ch = "B" -> "b"
      [] OTHER -> ch

\* ---------------------------------------------------------- path helpers
\* index of the first "/" in s at or after i, or 0
RECURSIVE FindSlash(_, _)
FindSlash(s, i) ==
    IF i > Len(s) THEN 0
    ELSE IF s[i] = "/" THEN i
    ELSE FindSlash(s, i + 1)

\* one path segment: [a-z0-9][a-z0-9-]*
ValidSegment(seg) ==
    /\ Len(seg) >= 1
    /\ seg[1] \in Lower \cup Digit
    /\ \A i \in 1..Len(seg) : seg[i] \in Lower \cup Digit \cup {"-"}

\* str.split("/") for the at-most-two-segment case: the text before the
\* first slash and the text after it
OrgOf(path) == SubSeq(path, 1, FindSlash(path, 1) - 1)
DatasetOf(path) == SubSeq(path, FindSlash(path, 1) + 1, Len(path))

\* get_validated_dataset_path: exactly two segments, each well formed
ValidDatasetPath(path) ==
    /\ FindSlash(path, 1) # 0
    /\ FindSlash(path, FindSlash(path, 1) + 1) = 0
    /\ ValidSegment(OrgOf(path))
    /\ ValidSegment(DatasetOf(path))

\* transform_dash_to_underscore
transform_dash_to_underscore(s) ==
    [i \in 1..Len(s) |-> IF s[i] = "-" THEN "_" ELSE s[i]]

\* sanitize_sql_table_name: lowercase, every character outside
\* [a-z0-9_] becomes an underscore
sanitize_sql_table_name(s) ==
    [i \in 1..Len(s) |->
        IF ToLowerChar(s[i]) \in Lower \cup Digit \cup {"_"}
        THEN ToLowerChar(s[i]) ELSE "_"]

\* os.path.join(org_name, dataset_name)
JoinPath(org, ds) == org \o <<"/">> \o ds

\* ------------------------------------------------------------ sample data
P1 == <<"o", "/", "a", "-", "b">>
P2 == <<"o", "/", "c">>
PBad == <<"o", "/", "A">>
GoodPaths == {P1, P2}
AllPaths == GoodPaths \cup {PBad}

\* the rows and columns held by the DataFrame d1
DfCols == << [name |-> "category", type |-> "string"],
             [name |-> "amount", type |-> "float"] >>
DfRows == << <<"A", "NA">>, <<"B", "0">> >>
DfData == [cols |-> DfCols, rows |-> DfRows]
NoData == [cols |-> <<>>, rows |-> <<>>]

\* --------------------------------------------------- schema descriptors
\* the argument dicts.  A column dict without a name and a transformation
\* dict without a type cannot be turned into a Column / Transformation.
ColCategory == [name |-> "category", type |-> "string", expression |-> ""]
ColAmount == [name |-> "amount", type |-> "float", expression |-> ""]
ColAmountSum == [name |-> "amount", type |-> "float", expression |-> "sum(amount)"]
ColNoName == [name |-> "", type |-> "string", expression |-> ""]

TFillNa == [type |-> "fill_na", column |-> "amount", from |-> "NA", to |-> "0"]
TMapValues == [type |-> "map_values", column |-> "amount", from |-> "0", to |-> "zero"]
TNoType == [type |-> "", column |-> "amount", from |-> "", to |-> ""]

SrcTable == [type |-> "mysql", table |-> "t"]
SrcNoTable == [type |-> "mysql", table |-> ""]

Rel1 == [type |-> "one-to-many", source |-> "a.id", target |-> "b.id"]

\* Column(**column) / Transformation(**t) succeed on a well-shaped dict
ColumnParses(c) == c.name # ""
TransformationParses(t) == t.type # ""

AllColumnsParse(list) == \A i \in 1..Len(list) : ColumnParses(list[i])
AllTransformationsParse(list) ==
    \A i \in 1..Len(list) : TransformationParses(list[i])

\* column list inferred from the DataFrame's data: every column plain
InferColumns(cols) ==
    [i \in 1..Len(cols) |->
        [name |-> cols[i].name, type |-> cols[i].type, expression |-> ""]]

\* the schema a DataFrame carries before any create call touched it
DefaultTableName == <<"t", "0">>
DefaultSchema ==
    [name |-> DefaultTableName,
     description |-> NoneStr,
     columns |-> Some(InferColumns(DfCols)),
     source |-> NoneSrc,
     relations |-> NoneList,
     group_by |-> NoneList,
     transformations |-> NoneList,
     view |-> FALSE]

\* a schema object built by the SemanticLayerSchema constructor
NewSchema(name, source, relations, view, columns, group_by, transformations) ==
    [name |-> name,
     description |-> NoneStr,
     columns |-> columns,
     source |-> source,
     relations |-> relations,
     group_by |-> group_by,
     transformations |-> transformations,
     view |-> view]

Range(f) == {f[i] : i \in DOMAIN f}

\* 1. the name is a lowercase identifier without hyphens
ValidName(name) ==
    /\ Len(name) >= 1
    /\ \A i \in 1..Len(name) : name[i] \in Lower \cup Digit \cup {"_"}

PlainNames(cols) == {cols[i].name : i \in {j \in 1..Len(cols) : cols[j].expression = ""}}
HasAggregated(cols) == \E i \in 1..Len(cols) : cols[i].expression # ""

\* 2. unique column names; group_by entries name existing plain columns
ValidColumns(s) ==
    /\ s.columns.some =>
          \A i, j \in 1..Len(s.columns.v) :
              s.columns.v[i].name = s.columns.v[j].name => i = j
    /\ (s.columns.some /\ s.group_by.some) =>
          Range(s.group_by.v) \subseteq PlainNames(s.columns.v)

\* 3. with an aggregated column, group_by is non-empty and covers every
\*    plain column, or there is no plain column
ValidAggregation(s) ==
    (s.columns.some /\ HasAggregated(s.columns.v)) =>
        \/ /\ TruthyList(s.group_by)
           /\ PlainNames(s.columns.v) \subseteq Range(s.group_by.v)
        \/ PlainNames(s.columns.v) = {}

\* 4. one dataset kind: a source and a view exclude each other
ValidKind(s) == ~(s.source.some /\ s.view)

\* 5. transformation entries are well shaped
ValidTransformations(s) ==
    s.transformations.some => AllTransformationsParse(s.transformations.v)

\* SemanticLayerSchema validation, first failing check wins
Validate(s) ==
    IF ~ValidName(s.name) THEN "InvalidConfigError"
    ELSE IF ~ValidColumns(s) THEN "InvalidConfigError"
    ELSE IF ~ValidAggregation(s) THEN "InvalidConfigError"
    ELSE IF ~ValidKind(s) THEN "InvalidConfigError"
    ELSE IF ~ValidTransformations(s) THEN "InvalidConfigError"
    ELSE "ok"

\* schema.to_yaml() and its reading back: the descriptor file holds every
\* field of the schema
ToYaml(s) == [fmt |-> "yaml", doc |-> s]
FromYaml(y) == y.doc
NoYaml == [fmt |-> "", doc |-> DefaultSchema]

\* ------------------------------------------------------- transformations
ColIndex(cols, name) ==
    IF \E i \in 1..Len(cols) : cols[i].name = name
    THEN CHOOSE i \in 1..Len(cols) : cols[i].name = name
    ELSE 0

\* fill_na and map_values both replace one cell value by another in one
\* column; fill_na replaces the missing value
ApplyOne(t, data) ==
    LET k == ColIndex(data.cols, t.column) IN
    IF k = 0 THEN data
    ELSE [data EXCEPT !.rows =
            [r \in 1..Len(data.rows) |->
                [c \in 1..Len(data.rows[r]) |->
                    IF c = k /\ data.rows[r][c] = t.from
                    THEN t.to ELSE data.rows[r][c]]]]

\* the transformation list applied in declared order
RECURSIVE ApplyTransformations(_, _)
ApplyTransformations(ts, data) ==
    IF ts = <<>> THEN data
    ELSE ApplyTransformations(Tail(ts), ApplyOne(Head(ts), data))

\* names and types of a column list
NamesTypes(cols) ==
    [i \in 1..Len(cols) |-> [name |-> cols[i].name, type |-> cols[i].type]]

\* to_parquet without index=False: the index is stored as a first column
ToParquetWithIndex(data) ==
    [fmt |-> "parquet",
     cols |-> <<[name |-> "index", type |-> "integer"]>> \o data.cols,
     rows |-> [r \in 1..Len(data.rows) |-> <<"i">> \o data.rows[r]]]

\* DataFrame.to_parquet(index=False) and its reading back
ToParquet(data) == [fmt |-> "parquet", cols |-> data.cols, rows |-> data.rows]
FromParquet(f) == [cols |-> f.cols, rows |-> f.rows]
NoParquet == [fmt |-> "", cols |-> <<>>, rows |-> <<>>]

\* ------------------------------------------------------------ call inputs
\* df is "none" (None), "raw" (an object that is not a PandasAI DataFrame)
\* or "d1" (the DataFrame d1).  io names the write of this call that the
\* storage refuses: "none", "parquet" or "schema".
BaseArgs ==
    [path |-> P1, df |-> "none", description |-> NoneStr, columns |-> NoneList,
     source |-> NoneSrc, relations |-> NoneList, view |-> FALSE,
     group_by |-> NoneList, transformations |-> NoneList, io |-> "none"]

DfArgs == {"none", "raw", "d1"}
SourceArgs == {NoneSrc, Some(SrcTable), Some(SrcNoTable)}
ColumnsArgs == {NoneList, Some(<<>>), Some(<<ColCategory, ColAmountSum>>),
                Some(<<ColCategory>>), Some(<<ColNoName>>)}
GroupByArgs == {NoneList, Some(<<>>), Some(<<"category">>)}
TransformationsArgs == {NoneList, Some(<<>>), Some(<<TFillNa, TMapValues>>),
                        Some(<<TNoType>>)}

\* every combination of the kind indicators, on each well-formed path
KindArgs ==
    {[BaseArgs EXCEPT !.path = p, !.df = d, !.source = s, !.view = v] :
        p \in GoodPaths, d \in DfArgs, s \in SourceArgs, v \in BOOLEAN}

BadPathArgs == {[BaseArgs EXCEPT !.path = PBad, !.df = d] : d \in DfArgs}

\* the schema overrides of a materialized dataset
SchemaArgs ==
    {[BaseArgs EXCEPT !.df = "d1", !.columns = c, !.group_by = g,
                      !.transformations = t] :
        c \in ColumnsArgs, g \in GroupByArgs, t \in TransformationsArgs}

\* description, relations, overrides on a view, refused writes
OtherArgs ==
    {[BaseArgs EXCEPT !.df = "d1", !.description = Some("d")],
     [BaseArgs EXCEPT !.path = P2, !.df = "d1", !.transformations = Some(<<TFillNa>>)],
     [BaseArgs EXCEPT !.view = TRUE, !.relations = Some(<<Rel1>>),
                      !.description = Some("d")],
     [BaseArgs EXCEPT !.view = TRUE, !.columns = Some(<<ColCategory, ColAmountSum>>)],
     [BaseArgs EXCEPT !.source = Some(SrcTable), !.transformations = Some(<<TNoType>>)],
     [BaseArgs EXCEPT !.df = "d1", !.io = "parquet"],
     [BaseArgs EXCEPT !.df = "d1", !.io = "schema"],
     [BaseArgs EXCEPT !.view = TRUE, !.io = "schema"]}

CreateArgs == KindArgs \cup BadPathArgs \cup SchemaArgs \cup OtherArgs

\* the inputs of the calls that run interleaved
ConcCreateArgs ==
    {[BaseArgs EXCEPT !.df = "d1"],
     [BaseArgs EXCEPT !.view = TRUE],
     [BaseArgs EXCEPT !.source = Some(SrcTable)],
     BaseArgs,
     [BaseArgs EXCEPT !.df = "d1", !.columns = Some(<<ColCategory, ColAmountSum>>)]}

\* ------------------------------------------------------------------ state
Callers == {"c1", "c2"}
DfIds == {"d1"}

VARIABLES
    mode,     \* "seq": one call at a time; "conc": calls interleave
    fs,       \* the file manager's storage, per dataset directory
    dfs,      \* the schema object held by each DataFrame
    call,     \* per caller: the call in progress and its position
    ncalls,   \* number of calls begun
    made,     \* per directory: the create call that returned a dataset
    current_agent,  \* the module's _current_agent
    conv,     \* the last chat / follow_up call and its outcome
    nconv,    \* number of chat / follow_up calls made
    lastChat  \* the most recent chat call that was given a dataframe

convVars == <<current_agent, conv, nconv, lastChat>>
vars == <<mode, fs, dfs, call, ncalls, made, convVars>>

NoFile == [dir |-> FALSE, schema |-> [some |-> FALSE, v |-> NoYaml],
           parquet |-> [some |-> FALSE, v |-> NoParquet],
           nschema |-> 0, nparquet |-> 0]

NoDataset == [kind |-> "none", cols |-> <<>>, rows |-> <<>>]

Idle ==
    [op |-> "none", pc |-> "idle", a |-> BaseArgs, res |-> "none", at |-> "none",
     bound |-> FALSE, sch |-> DefaultSchema, out |-> NoDataset,
     mk |-> FALSE, wp |-> FALSE, ws |-> FALSE,
     fs0 |-> [d \in GoodPaths |-> NoFile], dfs0 |-> [d \in DfIds |-> DefaultSchema],
     made0 |-> {}]

\* no create call has returned a dataset for the directory
NotMade == [some |-> FALSE, a |-> BaseArgs, dfs0 |-> [d \in DfIds |-> DefaultSchema]]

\* _current_agent = None
NoAgent == [id |-> 0, dataframes |-> <<>>, sandbox |-> "none"]

NoConv == [op |-> "none", query |-> "", frames |-> <<>>, res |-> "none",
           by |-> 0, before |-> NoAgent]

InitState ==
    /\ current_agent = NoAgent
    /\ conv = NoConv
    /\ nconv = 0
    /\ lastChat = 0
    /\ fs = [d \in GoodPaths |-> NoFile]
    /\ dfs = [d \in DfIds |-> DefaultSchema]
    /\ call = [c \in Callers |-> Idle]
    /\ ncalls = 0
    /\ made = [d \in GoodPaths |-> NotMade]

Init == mode = "seq" /\ InitState
InitConc == mode = "conc" /\ InitState
InitChat == mode = "chat" /\ InitState

\* ------------------------------------------------------ locals of a call
\* org_name, dataset_name = get_validated_dataset_path(path)
DatasetDirectory(a) == JoinPath(OrgOf(a.path), DatasetOf(a.path))
\* the stored name taken from the organization segment
UnderscoreNameOfOrg(a) == transform_dash_to_underscore(OrgOf(a.path))

UnderscoreName(a) == transform_dash_to_underscore(DatasetOf(a.path))

ParsedTransformations(a) ==
    IF TruthyList(a.transformations) THEN Some(a.transformations.v) ELSE NoneList
ParsedColumns(a) ==
    IF TruthyList(a.columns) THEN Some(a.columns.v) ELSE NoneList

\* the schema object the call works on: the DataFrame's own schema object
\* in the materialized branch, a fresh object otherwise
SchemaOf(c) ==
    IF call[c].a.df = "d1" THEN dfs["d1"] ELSE call[c].sch

Raise(c, err) ==
    call' = [call EXCEPT ![c].pc = "done", ![c].res = err, ![c].at = call[c].pc]

Goto(c, pc) == call' = [call EXCEPT ![c].pc = pc]

\* ----------------------------------------------------------------- create
\* a call begins; in a sequential run only when no other call is running
CanBegin(c) ==
    /\ ncalls < MaxCalls
    /\ call[c].pc \in {"idle", "done"}
    /\ mode = "seq" => c = "c1"

BeginCreate(c, a) ==
    /\ CanBegin(c)
    /\ a \in (IF mode = "seq" THEN CreateArgs ELSE ConcCreateArgs)
    /\ call' = [call EXCEPT ![c] =
            [Idle EXCEPT !.op = "create", !.pc = "L135", !.a = a,
                         !.fs0 = fs, !.dfs0 = dfs,
                         !.made0 = {d \in GoodPaths : made[d].some}]]
    /\ ncalls' = ncalls + 1
    /\ UNCHANGED <<convVars, mode, made, fs, dfs>>

\* if df is not None and not isinstance(df, DataFrame): raise ValueError
BadDfType(a) == a.df # "none" /\ a.df # "d1"

CreateL135(c) ==
    /\ call[c].op = "create" /\ call[c].pc = "L135"
    /\ IF BadDfType(call[c].a)
       THEN Raise(c, "ValueError_df")
       ELSE Goto(c, "L138")
    /\ UNCHANGED <<convVars, mode, made, fs, dfs, ncalls>>

\* org_name, dataset_name = get_validated_dataset_path(path)
CreateL138(c) ==
    /\ call[c].op = "create" /\ call[c].pc = "L138"
    /\ IF ~ValidDatasetPath(call[c].a.path)
       THEN Raise(c, "InvalidPathError")
       ELSE Goto(c, "L147")
    /\ UNCHANGED <<convVars, mode, made, fs, dfs, ncalls>>

\* the existence check looking for the data file instead of the descriptor
DatasetExistsParquet(f, dir) == f[dir].dir /\ f[dir].parquet.some

\* the existence check looking at the underscore name of the directory
DatasetExistsUnderscore(f, dir) ==
    LET d == transform_dash_to_underscore(dir) IN
    d \in DOMAIN f /\ f[d].dir /\ f[d].schema.some

\* the existence check satisfied by the directory alone
DatasetExistsDirOnly(f, dir) == f[dir].dir

\* file_manager.exists(dataset_directory) and file_manager.exists(schema_path)
DatasetExists(f, dir) == f[dir].dir /\ f[dir].schema.some

\* the directory created before the existence check is made
CreateL147MkdirFirst(c) ==
    /\ call[c].op = "create" /\ call[c].pc = "L147"
    /\ fs' = [fs EXCEPT ![DatasetDirectory(call[c].a)].dir = TRUE]
    /\ IF DatasetExists(fs, DatasetDirectory(call[c].a))
       THEN call' = [call EXCEPT ![c].pc = "done", ![c].res = "ValueError_exists",
                                 ![c].at = "L147", ![c].mk = TRUE]
       ELSE call' = [call EXCEPT ![c].pc = "L150", ![c].mk = TRUE]
    /\ UNCHANGED <<convVars, mode, made, dfs, ncalls>>

CreateL147(c) ==
    /\ call[c].op = "create" /\ call[c].pc = "L147"
    /\ IF DatasetExists(fs, DatasetDirectory(call[c].a))
       THEN Raise(c, "ValueError_exists")
       ELSE Goto(c, "L150")
    /\ UNCHANGED <<convVars, mode, made, fs, dfs, ncalls>>

\* file_manager.mkdir(dataset_directory)
CreateL150(c) ==
    /\ call[c].op = "create" /\ call[c].pc = "L150"
    /\ fs' = [fs EXCEPT ![DatasetDirectory(call[c].a)].dir = TRUE]
    /\ call' = [call EXCEPT ![c].pc = "L152", ![c].mk = TRUE]
    /\ UNCHANGED <<convVars, mode, made, dfs, ncalls>>

\* the kind check with the negation of view lost
MissingKindViewSet(a) == a.df = "none" /\ ~a.source.some /\ a.view

\* if df is None and source is None and not view: raise InvalidConfigError
MissingKind(a) == a.df = "none" /\ ~a.source.some /\ ~a.view

CreateL152(c) ==
    /\ call[c].op = "create" /\ call[c].pc = "L152"
    /\ IF MissingKind(call[c].a)
       THEN Raise(c, "InvalidConfigError")
       ELSE Goto(c, "L158")
    /\ UNCHANGED <<convVars, mode, made, fs, dfs, ncalls>>

\* the parsing step with the columns left as raw dicts
ParseFailsTransformationsOnly(a) ==
    TruthyList(a.transformations)
        /\ ~AllTransformationsParse(a.transformations.v)

\* [Transformation(**t) for t in transformations] if transformations else None
\* [Column(**column) for column in columns] if columns else None
ParseFails(a) ==
    \/ TruthyList(a.transformations)
         /\ ~AllTransformationsParse(a.transformations.v)
    \/ TruthyList(a.columns) /\ ~AllColumnsParse(a.columns.v)

CreateL158(c) ==
    /\ call[c].op = "create" /\ call[c].pc = "L158"
    /\ IF ParseFails(call[c].a)
       THEN Raise(c, "InvalidConfigError")
       ELSE Goto(c, "L163")
    /\ UNCHANGED <<convVars, mode, made, fs, dfs, ncalls>>

\* the branch taken at "if df is not None / elif view / elif source.get"
Branch(a) ==
    IF a.df # "none" THEN "materialized"
    ELSE IF a.view THEN "view"
    ELSE IF a.source.v.table # "" THEN "source"
    ELSE "nothing"

\* the transformations of the df's schema kept when none are passed
OverrideSchemaKeepTransformations(s, a) ==
    [s EXCEPT !.name = UnderscoreName(a),
              !.transformations = IF TruthyList(ParsedTransformations(a))
                                  THEN ParsedTransformations(a)
                                  ELSE s.transformations,
              !.columns = IF TruthyList(ParsedColumns(a))
                          THEN ParsedColumns(a) ELSE s.columns,
              !.group_by = IF a.group_by.some THEN a.group_by ELSE s.group_by]

\* schema = df.schema with name and transformations overwritten, columns
\* and group_by overwritten when given
OverrideSchema(s, a) ==
    [s EXCEPT !.name = UnderscoreName(a),
              !.transformations = ParsedTransformations(a),
              !.columns = IF TruthyList(ParsedColumns(a))
                          THEN ParsedColumns(a) ELSE s.columns,
              !.group_by = IF a.group_by.some THEN a.group_by ELSE s.group_by]

\* SemanticLayerSchema(name=..., relations=..., view=True, ...)
ViewSchema(a) ==
    NewSchema(UnderscoreName(a), NoneSrc,
              Some(IF a.relations.some THEN a.relations.v ELSE <<>>), TRUE,
              ParsedColumns(a), a.group_by, ParsedTransformations(a))

\* SemanticLayerSchema(name=..., source=Source(**source), ...)
SourceSchema(a) ==
    NewSchema(UnderscoreName(a), a.source, NoneList, FALSE,
              ParsedColumns(a), a.group_by, ParsedTransformations(a))

CreateL163(c) ==
    LET a == call[c].a
        built == IF Branch(a) = "view" THEN ViewSchema(a) ELSE SourceSchema(a)
    IN
    /\ call[c].op = "create" /\ call[c].pc = "L163"
    /\ CASE Branch(a) = "materialized" ->
              /\ dfs' = [dfs EXCEPT ![a.df] = OverrideSchema(dfs[a.df], a)]
              /\ call' = [call EXCEPT ![c].pc = "L173", ![c].bound = TRUE]
         [] Branch(a) \in {"view", "source"} ->
              /\ IF Validate(built) # "ok"
                 THEN Raise(c, Validate(built))
                 ELSE call' = [call EXCEPT ![c].pc = "L195", ![c].bound = TRUE,
                                           ![c].sch = built]
              /\ UNCHANGED dfs
         [] OTHER ->
              /\ Goto(c, "L195")
              /\ UNCHANGED dfs
    /\ UNCHANGED <<convVars, mode, made, fs, ncalls>>

\* the validation call left out
ModelValidateSkipped(s) == "ok"

\* SemanticLayerSchema.model_validate(schema)
ModelValidate(s) == Validate(s)

CreateL173(c) ==
    /\ call[c].op = "create" /\ call[c].pc = "L173"
    /\ IF ModelValidate(SchemaOf(c)) # "ok"
       THEN Raise(c, ModelValidate(SchemaOf(c)))
       ELSE Goto(c, "L175")
    /\ UNCHANGED <<convVars, mode, made, fs, dfs, ncalls>>

\* the data file written somewhere else than the dataset directory
CreateL175Elsewhere(c) ==
    /\ call[c].op = "create" /\ call[c].pc = "L175"
    /\ IF call[c].a.io = "parquet"
       THEN Raise(c, "IOError")
       ELSE call' = [call EXCEPT ![c].pc = "L195", ![c].wp = TRUE]
    /\ UNCHANGED <<convVars, mode, made, fs, dfs, ncalls>>

\* df.to_parquet(parquet_file_path_abs_path, index=False)
CreateL175(c) ==
    /\ call[c].op = "create" /\ call[c].pc = "L175"
    /\ IF call[c].a.io = "parquet"
       THEN Raise(c, "IOError") /\ UNCHANGED fs
       ELSE /\ fs' = [fs EXCEPT ![DatasetDirectory(call[c].a)] =
                        [@ EXCEPT !.parquet = Some(ToParquet(DfData)),
                                  !.nparquet = @ + 1]]
            /\ call' = [call EXCEPT ![c].pc = "L195", ![c].wp = TRUE]
    /\ UNCHANGED <<convVars, mode, made, dfs, ncalls>>

\* schema.description = description or schema.description
\* (schema is an unbound local when no branch assigned it)
WithDescription(s, a) ==
    [s EXCEPT !.description = IF TruthyStr(a.description)
                              THEN a.description ELSE s.description]

CreateL195(c) ==
    LET a == call[c].a IN
    /\ call[c].op = "create" /\ call[c].pc = "L195"
    /\ IF ~call[c].bound
       THEN Raise(c, "UnboundLocalError") /\ UNCHANGED dfs
       ELSE IF a.df = "d1"
       THEN /\ dfs' = [dfs EXCEPT ![a.df] = WithDescription(dfs[a.df], a)]
            /\ Goto(c, "L197")
       ELSE /\ call' = [call EXCEPT ![c].pc = "L197",
                                    ![c].sch = WithDescription(call[c].sch, a)]
            /\ UNCHANGED dfs
    /\ UNCHANGED <<convVars, mode, made, fs, ncalls>>

\* file_manager.write(schema_path, schema.to_yaml())
CreateL197(c) ==
    /\ call[c].op = "create" /\ call[c].pc = "L197"
    /\ IF call[c].a.io = "schema"
       THEN Raise(c, "IOError") /\ UNCHANGED fs
       ELSE /\ fs' = [fs EXCEPT ![DatasetDirectory(call[c].a)] =
                        [@ EXCEPT !.schema = Some(ToYaml(SchemaOf(c))),
                                  !.nschema = @ + 1]]
            /\ call' = [call EXCEPT ![c].pc = "L201", ![c].ws = TRUE]
    /\ UNCHANGED <<convVars, mode, made, dfs, ncalls>>

\* schema.name = sanitize_sql_table_name(schema.name)
CreateL201(c) ==
    LET a == call[c].a IN
    /\ call[c].op = "create" /\ call[c].pc = "L201"
    /\ IF a.df = "d1"
       THEN /\ dfs' = [dfs EXCEPT ![a.df].name = sanitize_sql_table_name(@)]
            /\ Goto(c, "L202")
       ELSE /\ call' = [call EXCEPT ![c].pc = "L202",
                                    ![c].sch.name = sanitize_sql_table_name(@)]
            /\ UNCHANGED dfs
    /\ UNCHANGED <<convVars, mode, made, fs, ncalls>>

\* ----------------------------------------------------------------- loader
\* DatasetLoader.load(): a materialized dataset reads the data file and
\* applies the transformations in order, its columns are those of the
\* schema; a source-backed dataset or a view is returned unfetched
LoaderLoad(s, file) ==
    IF s.source.some \/ s.view
    THEN [err |-> "ok",
          ds |-> [kind |-> "VirtualDataFrame",
                  cols |-> IF s.columns.some THEN NamesTypes(s.columns.v) ELSE <<>>,
                  rows |-> <<>>]]
    ELSE IF ~file.parquet.some
    THEN [err |-> "FileNotFoundError", ds |-> NoDataset]
    ELSE [err |-> "ok",
          ds |-> [kind |-> "DataFrame",
                  cols |-> IF s.columns.some THEN NamesTypes(s.columns.v)
                           ELSE FromParquet(file.parquet.v).cols,
                  rows |-> ApplyTransformations(
                              IF s.transformations.some
                              THEN s.transformations.v ELSE <<>>,
                              FromParquet(file.parquet.v)).rows]]

\* loader = DatasetLoader.create_loader_from_schema(schema, path)
\* return loader.load()
CreateL202(c) ==
    LET r == LoaderLoad(SchemaOf(c), fs[DatasetDirectory(call[c].a)]) IN
    /\ call[c].op = "create" /\ call[c].pc = "L202"
    /\ IF r.err # "ok"
       THEN Raise(c, r.err)
       ELSE call' = [call EXCEPT ![c].pc = "done", ![c].res = "ok",
                                 ![c].at = "L203", ![c].out = r.ds]
    /\ made' = IF r.err # "ok" THEN made
               ELSE [made EXCEPT ![DatasetDirectory(call[c].a)] =
                        [some |-> TRUE, a |-> call[c].a, dfs0 |-> call[c].dfs0]]
    /\ UNCHANGED <<convVars, mode, fs, dfs, ncalls>>

\* ------------------------------------------------------------------- load
BeginLoad(c, path) ==
    /\ CanBegin(c)
    /\ path \in (IF mode = "seq" THEN AllPaths ELSE {P1})
    /\ call' = [call EXCEPT ![c] =
            [Idle EXCEPT !.op = "load", !.pc = "L266",
                         !.a = [BaseArgs EXCEPT !.path = path],
                         !.fs0 = fs, !.dfs0 = dfs,
                         !.made0 = {d \in GoodPaths : made[d].some}]]
    /\ ncalls' = ncalls + 1
    /\ UNCHANGED <<convVars, mode, made, fs, dfs>>

\* get_validated_dataset_path(dataset_path)
LoadL266(c) ==
    /\ call[c].op = "load" /\ call[c].pc = "L266"
    /\ IF ~ValidDatasetPath(call[c].a.path)
       THEN Raise(c, "InvalidPathError")
       ELSE Goto(c, "L270")
    /\ UNCHANGED <<convVars, mode, made, fs, dfs, ncalls>>

\* local_dataset_exists = os.path.exists(dataset_full_path)
LocalDatasetExists(f, path) == f[path].dir

\* a missing directory reported as the operating system's error
LoadMissingErrorOs == "FileNotFoundError"

\* the error raised when local_dataset_exists is false
LoadMissingError == "DatasetNotFound"

LoadL270(c) ==
    /\ call[c].op = "load" /\ call[c].pc = "L270"
    /\ IF ~LocalDatasetExists(fs, call[c].a.path)
       THEN Raise(c, LoadMissingError)
       ELSE Goto(c, "L275")
    /\ UNCHANGED <<convVars, mode, made, fs, dfs, ncalls>>

\* DatasetLoader.create_loader_from_path: read the descriptor, validate it
LoaderFromPath(file) ==
    IF ~file.schema.some THEN "DatasetNotFound"
    ELSE Validate(FromYaml(file.schema.v))

LoadL275(c) ==
    LET file == fs[call[c].a.path] IN
    /\ call[c].op = "load" /\ call[c].pc = "L275"
    /\ IF LoaderFromPath(file) # "ok"
       THEN Raise(c, LoaderFromPath(file))
       ELSE call' = [call EXCEPT ![c].pc = "L276", ![c].bound = TRUE,
                                 ![c].sch = FromYaml(file.schema.v)]
    /\ UNCHANGED <<convVars, mode, made, fs, dfs, ncalls>>

\* df = loader.load(); return df
LoadL276(c) ==
    LET r == LoaderLoad(call[c].sch, fs[call[c].a.path]) IN
    /\ call[c].op = "load" /\ call[c].pc = "L276"
    /\ IF r.err # "ok"
       THEN Raise(c, r.err)
       ELSE call' = [call EXCEPT ![c].pc = "done", ![c].res = "ok",
                                 ![c].at = "L286", ![c].out = r.ds]
    /\ UNCHANGED <<convVars, mode, made, fs, dfs, ncalls>>

\* ---------------------------------------------------------- specification
Next ==
    \E c \in Callers :
        \/ \E a \in CreateArgs : BeginCreate(c, a)
        \/ CreateL135(c)
        \/ CreateL138(c)
        \/ CreateL147(c)
        \/ CreateL150(c)
        \/ CreateL152(c)
        \/ CreateL158(c)
        \/ CreateL163(c)
        \/ CreateL173(c)
        \/ CreateL175(c)
        \/ CreateL195(c)
        \/ CreateL197(c)
        \/ CreateL201(c)
        \/ CreateL202(c)
        \/ \E path \in AllPaths : BeginLoad(c, path)
        \/ LoadL266(c)
        \/ LoadL270(c)
        \/ LoadL275(c)
        \/ LoadL276(c)

\* ------------------------------------------------------ chat, follow_up
Queries == {"q1", "q2"}
ChatFrames == {<<>>, <<"d1">>, <<"d2">>, <<"d1", "d2">>}
Sandboxes == {"none", "sb"}

\* what the agent's chat / follow_up comes back with: a result or an error
AgentOutcomes == {"ok", "AgentError"}

\* the emptiness check of chat never taken
NoDataframesNever(frames) == FALSE

\* if not dataframes: raise ValueError
NoDataframes(frames) == frames = <<>>

\* chat(query, *dataframes, sandbox=...)
Chat(query, frames, sandbox) ==
    /\ nconv < MaxChats
    /\ nconv' = nconv + 1
    /\ lastChat' = IF Len(frames) > 0 THEN nconv + 1 ELSE lastChat
    /\ IF NoDataframes(frames)
       THEN /\ conv' = [op |-> "chat", query |-> query, frames |-> frames,
                        res |-> "ValueError_noframes", by |-> 0,
                        before |-> current_agent]
            /\ UNCHANGED current_agent
       ELSE /\ current_agent' = [id |-> nconv + 1, dataframes |-> frames,
                                 sandbox |-> sandbox]
            /\ \E r \in AgentOutcomes :
                  conv' = [op |-> "chat", query |-> query, frames |-> frames,
                           res |-> r, by |-> nconv + 1,
                           before |-> current_agent]
    /\ UNCHANGED <<mode, fs, dfs, call, ncalls, made>>

\* follow_up(query)
FollowUp(query) ==
    /\ nconv < MaxChats
    /\ nconv' = nconv + 1
    /\ IF current_agent = NoAgent
       THEN conv' = [op |-> "follow_up", query |-> query, frames |-> <<>>,
                     res |-> "ValueError_noconv", by |-> 0,
                     before |-> current_agent]
       ELSE \E r \in AgentOutcomes :
               conv' = [op |-> "follow_up", query |-> query, frames |-> <<>>,
                        res |-> r, by |-> current_agent.id,
                        before |-> current_agent]
    /\ UNCHANGED <<current_agent, lastChat, mode, fs, dfs, call, ncalls, made>>

NextChat ==
    \/ \E query \in Queries, frames \in ChatFrames, sandbox \in Sandboxes :
          Chat(query, frames, sandbox)
    \/ \E query \in Queries : FollowUp(query)

\* runs of chat and follow_up calls
SpecChat == InitChat /\ [][NextChat]_vars

\* sequential runs: one call at a time, run to its end
Spec == Init /\ [][Next]_vars

\* interleaved runs: the steps of two callers' calls in any order
SpecConc == InitConc /\ [][Next]_vars

\* ================================================================ claims
CreateDone(c) == call[c].op = "create" /\ call[c].pc = "done"
LoadDone(c) == call[c].op = "load" /\ call[c].pc = "done"
Failed(c) == call[c].res \notin {"none", "ok"}

\* the call's path is well formed and no descriptor was there when it began
FreshPath(c) ==
    /\ ValidDatasetPath(call[c].a.path)
    /\ ~call[c].fs0[call[c].a.path].schema.some

\* the storage as the call found it, except that the directory of the
\* call's path may have been created
OnlyDirectoryAdded(c) ==
    fs = [call[c].fs0 EXCEPT ![call[c].a.path].dir = TRUE]

\* C1: a create call with df None, source None and view false, on a
\* well-formed path that holds no dataset yet, fails with
\* InvalidConfigError, and no schema.yaml exists at its path afterwards.
C1_NoKindFails ==
    \A c \in Callers :
        (/\ CreateDone(c)
         /\ call[c].a.df = "none" /\ ~call[c].a.source.some /\ ~call[c].a.view
         /\ FreshPath(c))
        => /\ call[c].res = "InvalidConfigError"
           /\ ~fs[call[c].a.path].schema.some
           /\ ~call[c].ws

C1_Witness ==
    \E c \in Callers :
        /\ CreateDone(c)
        /\ call[c].a.df = "none" /\ ~call[c].a.source.some /\ ~call[c].a.view
        /\ FreshPath(c)
        /\ call[c].res = "InvalidConfigError"
        /\ call[c].mk

\* C2 as stated: after a create call succeeded on a path, every later
\* create call on that path fails with "dataset already exists" and leaves
\* schema.yaml and data.parquet as the first call wrote them.
C2_Original ==
    \A c \in Callers :
        (CreateDone(c) /\ call[c].a.path \in call[c].made0)
        => /\ call[c].res = "ValueError_exists"
           /\ fs = call[c].fs0
           /\ ~call[c].ws /\ ~call[c].wp

\* C2 amended: after a create call succeeded on a path, every later create
\* call on that path fails: with the df type error when its df is not a
\* PandasAI DataFrame, with "dataset already exists" otherwise; either way
\* it writes nothing and the storage is exactly as the first call left it.
C2_SecondCreateFails ==
    \A c \in Callers :
        (CreateDone(c) /\ call[c].a.path \in call[c].made0)
        => /\ call[c].res = IF call[c].a.df = "raw" THEN "ValueError_df"
                            ELSE "ValueError_exists"
           /\ fs = call[c].fs0
           /\ ~call[c].ws /\ ~call[c].wp /\ ~call[c].mk

C2_Witness ==
    \E c \in Callers :
        /\ CreateDone(c) /\ call[c].a.path \in call[c].made0
        /\ call[c].res = "ValueError_exists"
        /\ fs[call[c].a.path].schema.some
        /\ fs = call[c].fs0

\* the call's argument dicts are all well shaped
DictsWellShaped(a) ==
    /\ \A i \in 1..Len(a.transformations.v) : a.transformations.v[i].type # ""
    /\ \A i \in 1..Len(a.columns.v) : a.columns.v[i].name # ""

\* C3: a create call that fails validation (bad transformation or column
\* dict, schema validation, missing kind) has written neither schema.yaml
\* nor data.parquet: at most the directory was created.  A call that wrote
\* the descriptor had a kind, had well-shaped dicts, and the schema it
\* wrote passes validation.
C3_NoWriteOnValidationFailure ==
    \A c \in Callers :
        /\ (CreateDone(c) /\ call[c].res = "InvalidConfigError")
           => /\ ~call[c].ws /\ ~call[c].wp
              /\ OnlyDirectoryAdded(c)
        /\ (call[c].op = "create" /\ call[c].ws)
           => /\ call[c].a.df # "none" \/ call[c].a.source.some \/ call[c].a.view
              /\ DictsWellShaped(call[c].a)
              /\ Validate(FromYaml(fs[call[c].a.path].schema.v)) = "ok"

C3_Witness ==
    \E c \in Callers :
        /\ CreateDone(c) /\ call[c].res = "InvalidConfigError"
        /\ call[c].at = "L173"
        /\ call[c].mk /\ ~call[c].ws /\ ~call[c].wp
        /\ fs[call[c].a.path].dir /\ ~fs[call[c].a.path].parquet.some

\* a finished load of a path on which a create call given a DataFrame had
\* returned before the load began
LoadOfMaterialized(c) ==
    /\ LoadDone(c)
    /\ call[c].a.path \in call[c].made0
    /\ made[call[c].a.path].a.df = "d1"

C5_LoadWithoutDescriptor ==
    \A c \in Callers :
        (/\ LoadDone(c)
         /\ ValidDatasetPath(call[c].a.path)
         /\ ~call[c].fs0[call[c].a.path].schema.some)
        => call[c].res = "DatasetNotFound"

C5_Witness ==
    \E c \in Callers :
        /\ LoadDone(c)
        /\ ValidDatasetPath(call[c].a.path)
        /\ call[c].fs0[call[c].a.path].dir
        /\ ~call[c].fs0[call[c].a.path].schema.some
        /\ call[c].res = "DatasetNotFound"

\* more than one kind indicator is supplied
ConflictingKinds(a) ==
    \/ a.source.some /\ a.view
    \/ a.df # "none" /\ (a.source.some \/ a.view)

\* C6: a create call with conflicting kind indicators (source and view,
\* or a df with a source or with view) fails with InvalidConfigError and
\* writes no descriptor.
C6_ConflictingKindsFail ==
    \A c \in Callers :
        (CreateDone(c) /\ FreshPath(c) /\ call[c].a.df # "raw"
            /\ ConflictingKinds(call[c].a))
        => /\ call[c].res = "InvalidConfigError"
           /\ ~call[c].ws

\* a plain column of the schema is not listed in group_by
PlainColumnUnlisted(s) ==
    \E i \in 1..Len(s.columns.v) :
        /\ s.columns.v[i].expression = ""
        /\ \A j \in 1..Len(s.group_by.v) : s.group_by.v[j] # s.columns.v[i].name

AggregatedColumn(s) ==
    \E i \in 1..Len(s.columns.v) : s.columns.v[i].expression # ""

\* the create call given a DataFrame got as far as building its schema
SchemaBuilt(c) == CreateDone(c) /\ call[c].a.df = "d1" /\ call[c].bound

\* C7: a create call with a df whose resulting schema has an aggregated
\* column and a plain column not listed in group_by fails validation and
\* writes neither data.parquet nor schema.yaml; with every plain column
\* listed in group_by it succeeds and writes both.
C7_AggregationNeedsGroupBy ==
    \A c \in Callers :
        /\ (SchemaBuilt(c) /\ AggregatedColumn(dfs["d1"])
               /\ PlainColumnUnlisted(dfs["d1"]))
           => /\ call[c].res = "InvalidConfigError"
              /\ ~call[c].wp /\ ~call[c].ws
              /\ OnlyDirectoryAdded(c)
        /\ (SchemaBuilt(c) /\ AggregatedColumn(dfs["d1"])
               /\ ~PlainColumnUnlisted(dfs["d1"])
               /\ call[c].a.io = "none")
           => /\ call[c].res = "ok"
              /\ call[c].wp /\ call[c].ws
              /\ fs[call[c].a.path].parquet.some
              /\ fs[call[c].a.path].schema.some

C7_Witness ==
    \E c \in Callers :
        /\ SchemaBuilt(c)
        /\ AggregatedColumn(dfs["d1"]) /\ PlainColumnUnlisted(dfs["d1"])
        /\ call[c].res = "InvalidConfigError" /\ call[c].at = "L173"
        /\ ~fs[call[c].a.path].parquet.some

\* C8 as stated: whatever the interleaving of create calls on a path, at
\* most one of them writes the descriptor.
C8_Original == \A d \in GoodPaths : fs[d].nschema <= 1

\* C8 amended: once schema.yaml has been written at a path, no create
\* call that begins afterwards writes it: every call that wrote the
\* descriptor began when none had been written at its path.  (Calls that
\* are both past the existence check before either writes both write.)
C8_NoOverwriteByLaterCall ==
    \A c \in Callers :
        (call[c].op = "create" /\ call[c].ws)
        => /\ call[c].fs0[call[c].a.path].nschema = 0
           /\ ~call[c].fs0[call[c].a.path].schema.some

C8_Witness ==
    \E c \in Callers :
        /\ call[c].op = "create" /\ call[c].ws
        /\ \E o \in Callers \ {c} :
              /\ call[o].op = "create" /\ call[o].pc = "done"
              /\ call[o].res = "ValueError_exists"
              /\ call[o].a.path = call[c].a.path

\* C9: a source-backed create call (df None, view false, source given)
\* whose source names no table fails with InvalidConfigError and writes
\* no descriptor; the descriptor is written only when a table is named.
C9_SourceWithoutTable ==
    \A c \in Callers :
        (/\ CreateDone(c) /\ FreshPath(c)
         /\ call[c].a.df = "none" /\ ~call[c].a.view /\ call[c].a.source.some)
        => /\ call[c].a.source.v.table = ""
                => call[c].res = "InvalidConfigError" /\ ~call[c].ws
           /\ call[c].ws => call[c].a.source.v.table # ""

\* the call's configuration is valid for the DataFrame as it is when the
\* call begins, and the storage refuses none of its writes
ValidConfiguration(c) ==
    LET a == call[c].a IN
    /\ a.df # "raw"
    /\ a.df # "none" \/ a.source.some \/ a.view
    /\ DictsWellShaped(a)
    /\ a.io = "none"
    /\ CASE a.df = "d1" -> Validate(OverrideSchema(call[c].dfs0["d1"], a)) = "ok"
         [] a.df = "none" /\ a.view -> Validate(ViewSchema(a)) = "ok"
         [] OTHER -> a.source.v.table # "" /\ Validate(SourceSchema(a)) = "ok"

\* an earlier call left the directory of this call's path without a
\* descriptor
AfterFailedCreate(c) ==
    /\ ValidDatasetPath(call[c].a.path)
    /\ call[c].fs0[call[c].a.path].dir
    /\ ~call[c].fs0[call[c].a.path].schema.some

C11_StepOrder ==
    \A c \in Callers :
        call[c].op = "create" =>
            /\ call[c].mk =>
                  /\ call[c].a.df # "raw"
                  /\ ValidDatasetPath(call[c].a.path)
                  /\ ~call[c].fs0[call[c].a.path].schema.some
            /\ call[c].wp => call[c].mk /\ call[c].a.df = "d1"
            /\ call[c].ws => call[c].mk /\ (call[c].a.df = "d1" => call[c].wp)
            /\ (/\ call[c].pc = "done"
                /\ \/ ~ValidDatasetPath(call[c].a.path)
                   \/ /\ call[c].fs0[call[c].a.path].dir
                      /\ call[c].fs0[call[c].a.path].schema.some)
               => /\ ~call[c].mk /\ ~call[c].wp /\ ~call[c].ws
                  /\ fs = call[c].fs0

C11_Witness ==
    \E c \in Callers :
        /\ CreateDone(c)
        /\ ~ValidDatasetPath(call[c].a.path)
        /\ call[c].res = "InvalidPathError"
        /\ ~call[c].mk
        /\ fs = call[c].fs0
        /\ \E d \in GoodPaths : fs[d].schema.some /\ fs[d].parquet.some

\* the descriptor at d describes a materialized dataset
MaterializedDescriptor(d) ==
    /\ fs[d].schema.some
    /\ ~FromYaml(fs[d].schema.v).source.some
    /\ ~FromYaml(fs[d].schema.v).view

\* data.parquet is at d and schema.yaml is not
ParquetWithoutDescriptor(d) == fs[d].parquet.some /\ ~fs[d].schema.some

\* C12 as stated: a materialized schema.yaml is never without its
\* data.parquet, data.parquet is written by materialized creates only, and
\* no failed create (validation or a refused write) leaves a data.parquet
\* without its descriptor.
C12_Original ==
    /\ \A d \in GoodPaths : MaterializedDescriptor(d) => fs[d].parquet.some
    /\ \A c \in Callers :
          /\ (call[c].op = "create" /\ call[c].wp) => call[c].a.df = "d1"
          /\ (CreateDone(c) /\ Failed(c) /\ ValidDatasetPath(call[c].a.path))
             => ~ParquetWithoutDescriptor(call[c].a.path)

\* C12 amended: a materialized schema.yaml is never without its
\* data.parquet and data.parquet is written by materialized creates only;
\* a failed create leaves a data.parquet without its descriptor only when
\* the storage refused its descriptor write, after the data file was
\* written, or when the data file was already there when the call began.
C12_DescriptorImpliesData ==
    /\ \A d \in GoodPaths : MaterializedDescriptor(d) => fs[d].parquet.some
    /\ \A c \in Callers :
          /\ (call[c].op = "create" /\ call[c].wp) => call[c].a.df = "d1"
          /\ (/\ CreateDone(c) /\ Failed(c)
              /\ ValidDatasetPath(call[c].a.path)
              /\ ParquetWithoutDescriptor(call[c].a.path))
             => \/ /\ call[c].wp
                   /\ call[c].res = "IOError" /\ call[c].at = "L197"
                \/ /\ ~call[c].wp
                   /\ call[c].fs0[call[c].a.path].parquet.some
                   /\ ~call[c].fs0[call[c].a.path].schema.some

C12_Witness ==
    \E c \in Callers :
        /\ CreateDone(c) /\ call[c].res = "IOError" /\ call[c].at = "L197"
        /\ call[c].wp /\ ~call[c].ws
        /\ ParquetWithoutDescriptor(call[c].a.path)

\* a create call given a DataFrame has written its descriptor
WroteMaterialized(c) ==
    call[c].op = "create" /\ call[c].a.df = "d1" /\ call[c].ws

\* the schema read back from the descriptor at the call's path
Persisted(c) == FromYaml(fs[call[c].a.path].schema.v)

\* name and transformations of the persisted schema: the name is the
\* dataset segment with underscores, the transformations are the argument,
\* absent when none are passed
NameAndTransformationsFromCall(c) ==
    /\ Persisted(c).name =
          [i \in 1..Len(DatasetOf(call[c].a.path)) |->
              IF DatasetOf(call[c].a.path)[i] = "-" THEN "_"
              ELSE DatasetOf(call[c].a.path)[i]]
    /\ Persisted(c).transformations =
          IF call[c].a.transformations.some /\ call[c].a.transformations.v # <<>>
          THEN call[c].a.transformations ELSE NoneList

\* C13 as stated: in the materialized branch the persisted name comes
\* from the path and the transformations from the argument; columns and
\* group_by replace the values of the df's schema exactly when they were
\* supplied, an empty list included, and are the df's own otherwise.
C13_Original ==
    \A c \in Callers :
        WroteMaterialized(c)
        => /\ NameAndTransformationsFromCall(c)
           /\ Persisted(c).columns =
                 IF call[c].a.columns.some THEN call[c].a.columns
                 ELSE call[c].dfs0["d1"].columns
           /\ Persisted(c).group_by =
                 IF call[c].a.group_by.some THEN call[c].a.group_by
                 ELSE call[c].dfs0["d1"].group_by

\* C13 amended: as stated, except that columns replace the value of the
\* df's schema exactly when a non-empty list was supplied; an empty
\* columns list is treated like None.  group_by is replaced whenever it
\* is not None, the empty list included.
C13_PersistedOverrides ==
    \A c \in Callers :
        WroteMaterialized(c)
        => /\ NameAndTransformationsFromCall(c)
           /\ Persisted(c).columns =
                 IF call[c].a.columns.some /\ call[c].a.columns.v # <<>>
                 THEN call[c].a.columns
                 ELSE call[c].dfs0["d1"].columns
           /\ Persisted(c).group_by =
                 IF call[c].a.group_by.some THEN call[c].a.group_by
                 ELSE call[c].dfs0["d1"].group_by

C13_Witness ==
    \E c \in Callers :
        /\ WroteMaterialized(c)
        /\ call[c].dfs0["d1"].transformations.some
        /\ ~call[c].a.transformations.some
        /\ ~Persisted(c).transformations.some
        /\ call[c].a.columns = Some(<<>>)
        /\ call[c].a.group_by = Some(<<>>)
        /\ Persisted(c).columns = call[c].dfs0["d1"].columns
        /\ Persisted(c).group_by = Some(<<>>)

\* C14: a create call that fails validation leaves the schema object of
\* the caller's df as it was (name, transformations, columns, group_by),
\* and a create call given a df that an earlier create already returned a
\* dataset for leaves that schema object as it was.
C14_DfSchemaUnchanged ==
    \A c \in Callers :
        /\ (CreateDone(c) /\ call[c].res = "InvalidConfigError")
           => dfs = call[c].dfs0
        /\ (/\ CreateDone(c) /\ call[c].a.df = "d1"
            /\ \E d \in call[c].made0 : made[d].a.df = "d1")
           => dfs = call[c].dfs0

\* no character of the name is a hyphen
NoHyphen(name) == \A i \in 1..Len(name) : name[i] # "-"

\* C15: after a successful create the name in schema.yaml is the dataset
\* segment of the path with every hyphen replaced by an underscore, the
\* descriptor (and the data file of a materialized dataset) are in the
\* directory named by the unmodified segments, and the name is sanitized
\* only once the descriptor is written, so the persisted name stays.
C15_PersistedName ==
    \A c \in Callers :
        /\ (CreateDone(c) /\ call[c].res = "ok")
           => LET org == OrgOf(call[c].a.path)
                  ds == DatasetOf(call[c].a.path)
                  dir == org \o <<"/">> \o ds
              IN
              /\ fs[dir].dir /\ fs[dir].schema.some
              /\ call[c].a.df = "d1" => fs[dir].parquet.some
              /\ Len(FromYaml(fs[dir].schema.v).name) = Len(ds)
              /\ \A i \in 1..Len(ds) :
                    FromYaml(fs[dir].schema.v).name[i] =
                        IF ds[i] = "-" THEN "_" ELSE ds[i]
              /\ NoHyphen(FromYaml(fs[dir].schema.v).name)
        /\ (call[c].op = "create" /\ call[c].pc = "L202")
           => /\ call[c].ws
              /\ NoHyphen(Persisted(c).name)
              /\ Len(Persisted(c).name) = Len(DatasetOf(call[c].a.path))

C15_Witness ==
    \E c \in Callers :
        /\ CreateDone(c) /\ call[c].res = "ok"
        /\ call[c].a.path = P1
        /\ ~NoHyphen(DatasetOf(call[c].a.path))
        /\ Persisted(c).name = <<"a", "_", "b">>
        /\ fs[P1].schema.some

====
